---- MODULE Spec2Model ----
(***************************************************************************)
(* A model of cubequery/tasks/__init__.py: the typed parameter contract,   *)
(* the validation rules (validate_arg, validate_d_type, check_int,         *)
(* check_float), keyword-argument coercion (map_kwargs), the significant-  *)
(* kwargs declaration and the calculate_result pipeline with its           *)
(* packaging and delivery steps.                                           *)
(*                                                                         *)
(* Python values are records [kind, chars, num]:                           *)
(*   kind = "str"   : chars is the string, one element per character       *)
(*   kind = "int"   : num is the integer                                   *)
(*   kind = "float" : num is the number in units of 1/FloatScale           *)
(*   kind = "none"  : None                                                 *)
(*   kind = "obj"   : any other object (a list, a dict)                    *)
(* A call's outcome is a record whose field exc is "" when the call        *)
(* returned and the exception's class name when it raised.                 *)
(***************************************************************************)
EXTENDS Integers, Sequences, FiniteSets, TLC

\* ------------------------------------------------------------------ bounds

\* Longest raw string drawn as an input.
MaxLen == 3
\* Longest parameter list drawn for the significant-kwargs declaration.
MaxParams == 2
\* Longest list of output paths the computation returns.
MaxOutputs == 2

\* ------------------------------------------------------------- DType tags

DType_STRING == "str"
DType_INT == "int"
DType_FLOAT == "float"
DType_LAT == "lat"
DType_LON == "lon"
DType_DATE == "date"
DType_TIME == "time"
DType_WKT == "wkt"
\* A tag outside the enumeration: d_type is not checked at construction.
DType_Unrecognized == "bbox"

DTypes ==
  {DType_STRING, DType_INT, DType_FLOAT, DType_LAT, DType_LON,
   DType_DATE, DType_TIME, DType_WKT, DType_Unrecognized}

\* A Parameter, reduced to the two fields the task code reads.
Parameter(name, d_type) == [name |-> name, d_type |-> d_type]

\* ---------------------------------------------------------- Python values

\* Characters of the raw strings.  "sup2" is U+00B2 (superscript two), a
\* character str.isdigit accepts and int()/float() reject.  The alphabet
\* has no whitespace, underscore, exponent or letters of "inf"/"nan", so
\* int() and float() below are Python's grammars restricted to it.
Alphabet == {"0", "1", "8", "9", "+", "-", ".", "a", "sup2"}

\* ASCII decimal digits: what int() and float() read as digits.
DecimalDigits == {"0", "1", "8", "9"}

\* Characters for which str.isdigit is true.
IsDigitChars == DecimalDigits \cup {"sup2"}

DigitValue(c) ==
  CASE c = "0" -> 0 [] c = "1" -> 1 [] c = "8" -> 8 [] c = "9" -> 9 [] OTHER -> 0

RECURSIVE Pow10(_)
Pow10(n) == IF n = 0 THEN 1 ELSE 10 * Pow10(n - 1)

\* A float holds num / FloatScale: every literal of at most MaxLen
\* characters is represented exactly.
FloatScale == Pow10(MaxLen - 1)

StrV(chars) == [kind |-> "str", chars |-> chars, num |-> 0]
IntV(n) == [kind |-> "int", chars |-> <<>>, num |-> n]
FloatV(m) == [kind |-> "float", chars |-> <<>>, num |-> m]
NoneV == [kind |-> "none", chars |-> <<>>, num |-> 0]
ObjV == [kind |-> "obj", chars |-> <<>>, num |-> 0]

\* Outcome of a call: returned val, or raised exc.
Returned(val) == [exc |-> "", val |-> val]
Raised(exc) == [exc |-> exc, val |-> NoneV]

RECURSIVE DecimalValue(_)
DecimalValue(s) ==
  IF Len(s) = 0 THEN 0
  ELSE 10 * DecimalValue(SubSeq(s, 1, Len(s) - 1)) + DigitValue(s[Len(s)])

AllIn(s, chars) == \A i \in 1..Len(s) : s[i] \in chars

\* str.isdigit: non-empty and every character a digit character.
isdigit(s) == Len(s) > 0 /\ AllIn(s, IsDigitChars)

HasSign(s) == Len(s) > 0 /\ s[1] \in {"+", "-"}
Unsigned(s) == IF HasSign(s) THEN Tail(s) ELSE s
SignOf(s) == IF Len(s) > 0 /\ s[1] = "-" THEN -1 ELSE 1

\* int(v): a string is an optional sign and one or more decimal digits; a
\* float is truncated toward zero; None and other objects are a TypeError.
int(v) ==
  CASE v.kind = "int" -> Returned(IntV(v.num))
    [] v.kind = "float" ->
         Returned(IntV(IF v.num >= 0 THEN v.num \div FloatScale
                       ELSE -((-v.num) \div FloatScale)))
    [] v.kind = "str" ->
         LET body == Unsigned(v.chars)
         IN IF Len(body) > 0 /\ AllIn(body, DecimalDigits)
            THEN Returned(IntV(SignOf(v.chars) * DecimalValue(body)))
            ELSE Raised("ValueError")
    [] OTHER -> Raised("TypeError")

\* float(v): a string is an optional sign, then digits with an optional
\* point (digits on at least one side of it).
float(v) ==
  CASE v.kind = "float" -> Returned(FloatV(v.num))
    [] v.kind = "int" -> Returned(FloatV(v.num * FloatScale))
    [] v.kind = "str" ->
         LET body == Unsigned(v.chars)
             dots == {i \in 1..Len(body) : body[i] = "."}
             dot == IF dots = {} THEN Len(body) + 1 ELSE CHOOSE i \in dots : TRUE
             ip == SubSeq(body, 1, dot - 1)
             fp == SubSeq(body, dot + 1, Len(body))
         IN IF /\ Cardinality(dots) <= 1
               /\ Len(ip) + Len(fp) > 0
               /\ AllIn(ip, DecimalDigits)
               /\ AllIn(fp, DecimalDigits)
            THEN Returned(FloatV(SignOf(v.chars) *
                   (DecimalValue(ip) * FloatScale
                    + DecimalValue(fp) * (FloatScale \div Pow10(Len(fp))))))
            ELSE Raised("ValueError")
    [] OTHER -> Raised("TypeError")

\* ------------------------------------------------------------- validation

LatMin == -90
LatMax == 90
LonMin == -180
LonMax == 180

\* Outcome of a rule: returned ret, or raised exc; calls lists the type
\* rules and parsers evaluated on the value, in order.
Rule(exc, ret, calls) == [exc |-> exc, ret |-> ret, calls |-> calls]

check_int(s) ==
  IF s.kind = "int" THEN TRUE
  ELSE IF s.kind = "str"
       THEN IF Len(s.chars) = 0 THEN FALSE
            ELSE IF s.chars[1] \in {"-", "+"}
                 THEN isdigit(Tail(s.chars))
                 ELSE isdigit(s.chars)
       ELSE FALSE

\* Only ValueError is caught: any other exception of float() propagates.
check_float(s) ==
  IF s.kind = "float" THEN Rule("", TRUE, <<"check_float">>)
  ELSE LET r == float(s)
       IN IF r.exc = "" THEN Rule("", TRUE, <<"check_float", "float">>)
          ELSE IF r.exc = "ValueError"
               THEN Rule("", FALSE, <<"check_float", "float">>)
               ELSE Rule(r.exc, FALSE, <<"check_float", "float">>)

\* A range test that leaves out the bounds themselves.
InLatRange_Open(num) == LatMin * FloatScale < num /\ num < LatMax * FloatScale

InLatRange(num) == LatMin * FloatScale <= num /\ num <= LatMax * FloatScale

InLonRange(num) == LonMin * FloatScale <= num /\ num <= LonMax * FloatScale

\* wkt_parses is the external WKT parser's verdict on the value: wkt.loads
\* returns a geometry, or raises and the rule catches it.
validate_d_type(param, value, wkt_parses) ==
  CASE param.d_type = DType_INT ->
         Rule("", check_int(value), <<"check_int">>)
    [] param.d_type = DType_FLOAT -> check_float(value)
    [] param.d_type = DType_LAT ->
         LET c == check_float(value)
         IN IF c.exc = "" /\ c.ret
            THEN Rule("", InLatRange(float(value).val.num), c.calls \o <<"float">>)
            ELSE c
    [] param.d_type = DType_LON ->
         LET c == check_float(value)
         IN IF c.exc = "" /\ c.ret
            THEN Rule("", InLonRange(float(value).val.num), c.calls \o <<"float">>)
            ELSE c
    [] param.d_type = DType_WKT -> Rule("", wkt_parses, <<"wkt.loads">>)
    [] OTHER -> Rule("", value.kind = "str", <<"isinstance">>)

NotFoundReason(name) == "parameter " \o name \o " not found"

InvalidReason(name) == "parameter " \o name \o " value did not validate"

Search(parameters, name) ==
  LET Match(p) == p.name = name IN SelectSeq(parameters, Match)

\* The returned pair (accepted, reason), or the exception raised.
Verdict(exc, accepted, reason, calls) ==
  [exc |-> exc, accepted |-> accepted, reason |-> reason, calls |-> calls]

\* A validate_arg that applies the first parameter's type rule before the
\* lookup by name.
validate_arg_RuleFirst(parameters, name, value, wkt_parses) ==
  LET search == Search(parameters, name)
      r == validate_d_type(parameters[1], value, wkt_parses)
      calls == <<"validate_d_type">> \o r.calls
  IN IF r.exc # "" THEN Verdict(r.exc, FALSE, "", calls)
     ELSE IF Len(search) = 0 THEN Verdict("", FALSE, NotFoundReason(name), calls)
     ELSE IF ~r.ret THEN Verdict("", FALSE, InvalidReason(name), calls)
     ELSE Verdict("", TRUE, "", calls)

validate_arg(parameters, name, value, wkt_parses) ==
  LET search == Search(parameters, name)
  IN IF Len(search) = 0
     THEN Verdict("", FALSE, NotFoundReason(name), <<>>)
     ELSE LET r == validate_d_type(search[1], value, wkt_parses)
              calls == <<"validate_d_type">> \o r.calls
          IN IF r.exc # "" THEN Verdict(r.exc, FALSE, "", calls)
             ELSE IF ~r.ret THEN Verdict("", FALSE, InvalidReason(name), calls)
             ELSE Verdict("", TRUE, "", calls)

\* --------------------------------------------------------------- coercion

\* kwargs is the dict as its items in insertion order: <<key, value>> pairs
\* with distinct keys.  The loop stops at the first conversion that raises.
Coerced(exc, val) == [exc |-> exc, val |-> val]

RECURSIVE map_kwargs_items(_, _, _)
map_kwargs_items(parameters, items, result) ==
  IF Len(items) = 0 THEN Coerced("", result)
  ELSE LET k == items[1][1]
           v == items[1][2]
           args == Search(parameters, k)
           conv == IF Len(args) > 0
                   THEN IF args[1].d_type = DType_INT THEN int(v)
                        ELSE IF args[1].d_type \in {DType_FLOAT, DType_LAT, DType_LON}
                             THEN float(v)
                             ELSE Returned(v)
                   ELSE Returned(v)
       IN IF conv.exc # "" THEN Coerced(conv.exc, <<>>)
          ELSE map_kwargs_items(parameters, Tail(items),
                                Append(result, <<k, conv.val>>))

\* A coercion that keeps only the keys the task declares.
map_kwargs_DeclaredOnly(parameters, kwargs) ==
  LET Known(item) == Len(Search(parameters, item[1])) > 0
  IN map_kwargs_items(parameters, SelectSeq(kwargs, Known), <<>>)

map_kwargs(parameters, kwargs) == map_kwargs_items(parameters, kwargs, <<>>)

\* ---------------------------------------------------- significant kwargs

\* The builtin types handed to the job framework.
TypeStr == "builtins.str"
TypeInt == "builtins.int"

\* A mapping that hands the framework int for INT parameters.
map_d_type_to_jobtastic_IntForInt(d_type) ==
  IF d_type = DType_INT THEN TypeInt ELSE TypeStr

map_d_type_to_jobtastic(d_type) ==
  IF d_type = DType_INT THEN TypeStr
  ELSE IF d_type \in {DType_FLOAT, DType_LAT, DType_LON} THEN TypeStr
  ELSE TypeStr

cal_significant_kwargs(parameters) ==
  [i \in 1..Len(parameters) |->
     <<parameters[i].name, map_d_type_to_jobtastic(parameters[i].d_type)>>]

\* ------------------------------------------------------------------ state

VARIABLES
  parameters,          \* the task's declared Parameter list
  significant_kwargs,  \* the class attribute cal_significant_kwargs sets
  pc,                  \* where the current call or invocation stands
  v_name,              \* validate_arg's name argument
  v_value,             \* validate_arg's value argument
  wkt_parses,          \* the external WKT parser's verdict on v_value
  v_result,            \* what validate_arg returned or raised
  kwargs,              \* the raw keyword arguments
  m_result,            \* what map_kwargs returned or raised
  result_url,          \* configuration: App.result_url
  dirs,                \* directories on disk
  fs,                  \* files on disk: path -> content
  log,                 \* calculate_result's steps, as they start and end
  outputs,             \* the paths generate_product returned
  zip_file,            \* the archive zip_outputs wrote
  bucket,              \* object storage: key -> uploaded entries
  output_url,          \* what upload_results returned
  printed,             \* payloads ping_results printed
  exc                  \* the exception calculate_result propagated, or ""

taskVars == <<parameters, significant_kwargs>>
callVars == <<v_name, v_value, wkt_parses, v_result, kwargs, m_result>>
runVars == <<result_url, dirs, fs, log, outputs, zip_file, bucket, output_url, printed, exc>>
vars == <<taskVars, pc, callVars, runVars>>

\* ----------------------------------------------------------------- inputs

Names == {"lat", "year"}

Strings(n) == UNION {[1..k -> Alphabet] : k \in 0..n}

\* Native integers and floats (in tenths) around the range bounds.
IntInputs == {LonMin - 1, LonMin, LatMin - 1, LatMin, 0, 45, LatMax, LatMax + 1, LonMax, LonMax + 1}
TenthInputs ==
  {10 * LonMin - 1, 10 * LonMin, 10 * LatMin - 1, 10 * LatMin, 0, 455,
   10 * LatMax, 10 * LatMax + 1, 10 * LonMax, 10 * LonMax + 1}

RawValues ==
  {StrV(s) : s \in Strings(MaxLen)}
    \cup {IntV(n) : n \in IntInputs}
    \cup {FloatV(t * (FloatScale \div 10)) : t \in TenthInputs}
    \cup {NoneV, ObjV}

NoVerdict == Verdict("", FALSE, "", <<>>)
NoCoerced == Coerced("", <<>>)

\* The values no call of the validation or coercion specifications touches.
RunIdle ==
  /\ result_url = ""
  /\ dirs = {}
  /\ fs = <<>>
  /\ log = <<>>
  /\ outputs = <<>>
  /\ zip_file = <<>>
  /\ bucket = <<>>
  /\ output_url = <<>>
  /\ printed = <<>>
  /\ exc = ""

\* ------------------------------------------- validate_arg, then map_kwargs

\* One raw argument of a request against a one-parameter task: "lat" is
\* declared with any type, "year" is not declared.
InitValidate ==
  /\ \E t \in DTypes : parameters = <<Parameter("lat", t)>>
  /\ significant_kwargs = <<>>
  /\ v_name \in Names
  /\ v_value \in RawValues
  /\ wkt_parses \in
       IF parameters[1].d_type = DType_WKT /\ v_name = "lat" THEN BOOLEAN ELSE {FALSE}
  /\ v_result = NoVerdict
  /\ kwargs = << <<v_name, v_value>> >>
  /\ m_result = NoCoerced
  /\ pc = "intake"
  /\ RunIdle

ValidateArg ==
  /\ pc = "intake"
  /\ v_result' = validate_arg(parameters, v_name, v_value, wkt_parses)
  /\ pc' = "dispatch"
  /\ UNCHANGED <<taskVars, v_name, v_value, wkt_parses, kwargs, m_result, runVars>>

MapKwargs ==
  /\ pc = "dispatch"
  /\ m_result' = map_kwargs(parameters, kwargs)
  /\ pc' = "coerced"
  /\ UNCHANGED <<taskVars, v_name, v_value, wkt_parses, v_result, kwargs, runVars>>

NextValidate == ValidateArg \/ MapKwargs

SpecValidate == InitValidate /\ [][NextValidate]_vars

\* ------------------------------------------------- map_kwargs on a request

Keys == Names \cup {"extra"}

\* Parameter lists with distinct names, in the order lat, year.
DistinctParamLists ==
  {<<>>}
    \cup {<<Parameter(n, t)>> : n \in Names, t \in DTypes}
    \cup {<<Parameter("lat", t), Parameter("year", u)>> : t, u \in DTypes}

CoerceValues ==
  {StrV(<<"9", ".", "1">>), StrV(<<"-", "8">>), StrV(<<"a">>), IntV(45), NoneV}

\* Every dict over Keys, as its items in every insertion order.
KwargsOver(values) ==
  {items \in UNION {[1..k -> Keys \X values] : k \in 0..Cardinality(Keys)} :
     \A i, j \in 1..Len(items) : i # j => items[i][1] # items[j][1]}

InitCoerce ==
  /\ parameters \in DistinctParamLists
  /\ significant_kwargs = <<>>
  /\ kwargs \in KwargsOver(CoerceValues)
  /\ v_name = ""
  /\ v_value = NoneV
  /\ wkt_parses = FALSE
  /\ v_result = NoVerdict
  /\ m_result = NoCoerced
  /\ pc = "dispatch"
  /\ RunIdle

SpecCoerce == InitCoerce /\ [][MapKwargs]_vars

\* ------------------------------------------------- cal_significant_kwargs

ParamLists(n) == UNION {[1..k -> {Parameter(m, t) : m \in Names, t \in DTypes}] : k \in 0..n}

InitSignificant ==
  /\ parameters \in ParamLists(MaxParams)
  /\ significant_kwargs = <<>>
  /\ kwargs = <<>>
  /\ v_name = ""
  /\ v_value = NoneV
  /\ wkt_parses = FALSE
  /\ v_result = NoVerdict
  /\ m_result = NoCoerced
  /\ pc = "define"
  /\ RunIdle

CalSignificantKwargs ==
  /\ pc = "define"
  /\ significant_kwargs' = cal_significant_kwargs(parameters)
  /\ pc' = "defined"
  /\ UNCHANGED <<parameters, callVars, runVars>>

SpecSignificant == InitSignificant /\ [][CalSignificantKwargs]_vars

\* -------------------------------------------------------- calculate_result

\* Configuration and the invocation's identity.
result_dir == "results"
request_id == "req1"
aws_path_prefix == "outputs"

\* A path is the sequence of its components.
join(prefix, name) == Append(prefix, name)
basename(f) == f[Len(f)]

path_prefix == join(<<result_dir>>, request_id)
query_json == join(path_prefix, "query.json")
output_zip == join(path_prefix, request_id \o "_output.zip")

\* File contents: the serialized request, or what the computation wrote
\* to a path.
RequestRecord == [kind |-> "request", of |-> <<request_id>>]
Product(f) == [kind |-> "product", of |-> f]

BaseNames == {"a.tif", "b.tif", "query.json"}
OutputPaths ==
  {join(path_prefix, b) : b \in BaseNames}
    \cup {join(join(path_prefix, "tiles"), b) : b \in BaseNames}
OutputLists(n) == UNION {[1..k -> OutputPaths] : k \in 0..n}

RunValues ==
  {StrV(<<"9", ".", "0">>), StrV(<<"9", "1">>), StrV(<<"1", "8">>), StrV(<<"a">>)}

Range(f) == {f[i] : i \in DOMAIN f}

Write(files, f, content) ==
  [q \in DOMAIN files \cup {f} |-> IF q = f THEN content ELSE files[q]]

NoZip == [path |-> <<>>, entries |-> <<>>]

\* The statements of calculate_result, in program order.
StepOrder ==
  <<"makedirs", "Datacube", "map_kwargs", "generate_product", "log_query",
    "zip_outputs", "upload_results", "ping_results">>

StepIndex(step) == CHOOSE i \in 1..Len(StepOrder) : StepOrder[i] = step

\* An order that builds the archive before the request record is written.
After_ZipBeforeLog(step) ==
  CASE step = "generate_product" -> "zip_outputs"
    [] step = "zip_outputs" -> "log_query"
    [] step = "log_query" -> "upload_results"
    [] step = "ping_results" -> "done"
    [] OTHER -> StepOrder[StepIndex(step) + 1]

After(step) ==
  IF StepIndex(step) = Len(StepOrder) THEN "done" ELSE StepOrder[StepIndex(step) + 1]

\* A statement returns: control passes to the next one.
Completes(step) ==
  /\ pc' = After(step)
  /\ log' = Append(log, <<step, "done">>)
  /\ exc' = exc

\* A statement raises: nothing catches it, calculate_result ends with it.
Raises(step, e) ==
  /\ pc' = "raised"
  /\ log' = Append(log, <<step, "raise">>)
  /\ exc' = e

\* An archive that leaves the request record out.
zip_entries_OutputsOnly(results, files) ==
  [i \in 1..Len(results) |->
     [arcname |-> basename(results[i]), data |-> files[results[i]]]]

\* The entries zip_outputs writes, in order.
zip_entries(results, files) ==
  <<[arcname |-> "query.json", data |-> files[query_json]]>>
    \o [i \in 1..Len(results) |->
          [arcname |-> basename(results[i]), data |-> files[results[i]]]]

Init ==
  /\ parameters = <<Parameter("lat", DType_LAT), Parameter("year", DType_INT)>>
  /\ significant_kwargs = cal_significant_kwargs(parameters)
  /\ kwargs \in {<< <<"lat", a>>, <<"year", b>> >> : a, b \in RunValues}
  /\ v_name = ""
  /\ v_value = NoneV
  /\ wkt_parses = FALSE
  /\ v_result = NoVerdict
  /\ m_result = NoCoerced
  /\ pc = "makedirs"
  /\ result_url \in {"", "http://results"}
  /\ dirs \in {{}, {path_prefix}}
  /\ fs = <<>>
  /\ log = <<>>
  /\ outputs = <<>>
  /\ zip_file = NoZip
  /\ bucket = <<>>
  /\ output_url = <<>>
  /\ printed = <<>>
  /\ exc = ""

Fixed == <<taskVars, v_name, v_value, wkt_parses, v_result, kwargs, result_url>>

\* os.makedirs(path_prefix, exist_ok=True)
MakeDirs ==
  /\ pc = "makedirs"
  /\ \/ /\ dirs' = dirs \cup {path_prefix}
        /\ Completes("makedirs")
     \/ /\ Raises("makedirs", "OSError")
        /\ UNCHANGED dirs
  /\ UNCHANGED <<Fixed, m_result, fs, outputs, zip_file, bucket, output_url, printed>>

\* dc = datacube.Datacube(app=self.name)
ConnectDatacube ==
  /\ pc = "Datacube"
  /\ \/ Completes("Datacube")
     \/ Raises("Datacube", "DatacubeError")
  /\ UNCHANGED <<Fixed, m_result, dirs, fs, outputs, zip_file, bucket, output_url, printed>>

\* self.map_kwargs(**kwargs), evaluated as generate_product's arguments
CoerceKwargs ==
  /\ pc = "map_kwargs"
  /\ m_result' = map_kwargs(parameters, kwargs)
  /\ \/ /\ m_result'.exc = ""
        /\ Completes("map_kwargs")
     \/ /\ m_result'.exc # ""
        /\ Raises("map_kwargs", m_result'.exc)
  /\ UNCHANGED <<Fixed, dirs, fs, outputs, zip_file, bucket, output_url, printed>>

\* outputs = self.generate_product(dc, path_prefix, **coerced): the task's
\* own computation writes its files and returns their paths, or raises.
GenerateProduct ==
  /\ pc = "generate_product"
  /\ \/ \E results \in OutputLists(MaxOutputs) :
          /\ outputs' = results
          /\ fs' = [q \in DOMAIN fs \cup Range(results) |->
                      IF q \in Range(results) THEN Product(q) ELSE fs[q]]
          /\ Completes("generate_product")
     \/ /\ Raises("generate_product", "ComputationError")
        /\ UNCHANGED <<outputs, fs>>
  /\ UNCHANGED <<Fixed, m_result, dirs, zip_file, bucket, output_url, printed>>

\* self.log_query(path_prefix)
LogQuery ==
  /\ pc = "log_query"
  /\ \/ /\ fs' = Write(fs, query_json, RequestRecord)
        /\ Completes("log_query")
     \/ /\ Raises("log_query", "OSError")
        /\ UNCHANGED fs
  /\ UNCHANGED <<Fixed, m_result, dirs, outputs, zip_file, bucket, output_url, printed>>

\* self.zip_outputs(path_prefix, outputs): a file that is missing raises.
ZipOutputs ==
  /\ pc = "zip_outputs"
  /\ \/ /\ query_json \in DOMAIN fs
        /\ Range(outputs) \subseteq DOMAIN fs
        /\ zip_file' = [path |-> output_zip, entries |-> zip_entries(outputs, fs)]
        /\ Completes("zip_outputs")
     \/ /\ Raises("zip_outputs", "OSError")
        /\ UNCHANGED zip_file
  /\ UNCHANGED <<Fixed, m_result, dirs, fs, outputs, bucket, output_url, printed>>

\* output_url = self.upload_results(path_prefix)
UploadResults ==
  /\ pc = "upload_results"
  /\ LET source_file_path == join(path_prefix, request_id \o "_output.zip")
         dest_file_path == join(<<aws_path_prefix>>, request_id \o "_output.zip")
     IN \/ /\ zip_file.path = source_file_path
           /\ bucket' = Write(bucket, dest_file_path, zip_file.entries)
           /\ output_url' = dest_file_path
           /\ Completes("upload_results")
        \/ /\ Raises("upload_results", "UploadError")
           /\ UNCHANGED <<bucket, output_url>>
  /\ UNCHANGED <<Fixed, m_result, dirs, fs, outputs, zip_file, printed>>

\* self.ping_results(output_url): the payload is printed when a result
\* url is configured; reading the configuration may raise.
PingResults ==
  /\ pc = "ping_results"
  /\ \/ /\ printed' = IF result_url # ""
                      THEN Append(printed, [url |-> output_url, name |-> ""])
                      ELSE printed
        /\ Completes("ping_results")
     \/ /\ Raises("ping_results", "ConfigError")
        /\ UNCHANGED printed
  /\ UNCHANGED <<Fixed, m_result, dirs, fs, outputs, zip_file, bucket, output_url>>

Next ==
  \/ MakeDirs
  \/ ConnectDatacube
  \/ CoerceKwargs
  \/ GenerateProduct
  \/ LogQuery
  \/ ZipOutputs
  \/ UploadResults
  \/ PingResults

Spec == Init /\ [][Next]_vars

\* ------------------------------------------------- properties: validation

\* The type the task declares for name, or "" when it declares none.
DeclaredType(name) ==
  IF \E i \in 1..Len(parameters) : parameters[i].name = name
  THEN parameters[CHOOSE i \in 1..Len(parameters) :
                    /\ parameters[i].name = name
                    /\ \A j \in 1..(i - 1) : parameters[j].name # name].d_type
  ELSE ""

Validated == pc \in {"dispatch", "coerced"}

\* The grammar [+-]?[0-9]+ over the alphabet's characters.
MatchesIntGrammar(s) ==
  \E sign \in {<<>>, <<"+">>, <<"-">>} :
    /\ Len(s) > Len(sign)
    /\ SubSeq(s, 1, Len(sign)) = sign
    /\ \A i \in (Len(sign) + 1)..Len(s) : s[i] \in {"0", "1", "8", "9"}

\* A decimal floating-point literal: [+-]?([0-9]+(\.[0-9]*)?|\.[0-9]+).
IsFloatLiteral(s) ==
  \E sg \in 0..1, n \in 0..Len(s), m \in 0..Len(s) :
    /\ sg = 1 => (Len(s) > 0 /\ s[1] \in {"+", "-"})
    /\ n + m > 0
    /\ \/ (m = 0 /\ n > 0 /\ Len(s) = sg + n)
       \/ (Len(s) = sg + n + 1 + m /\ s[sg + n + 1] = ".")
    /\ \A i \in (sg + 1)..(sg + n) : s[i] \in {"0", "1", "8", "9"}
    /\ \A i \in (sg + n + 2)..Len(s) : s[i] \in {"0", "1", "8", "9"}

\* C2: validate_arg never raises: whatever the parameter list, the name
\* and the kind of the raw value, the call returns a pair, (True, "") for
\* an accepted value and (False, non-empty reason) for a rejected one.
C2_ValidateArgNeverRaises ==
  Validated =>
    /\ v_result.exc = ""
    /\ v_result.accepted => v_result.reason = ""
    /\ ~v_result.accepted => v_result.reason # ""

\* C3: for a name the task does not declare validate_arg returns
\* not-accepted with the "not found" reason whatever the value is, having
\* evaluated no type rule or parser on the value; the reason is not the one
\* given for an invalid value of a declared parameter.
C3_UnknownNameNotFound ==
  /\ (Validated /\ DeclaredType(v_name) = "") =>
       /\ v_result.exc = ""
       /\ ~v_result.accepted
       /\ v_result.reason = "parameter " \o v_name \o " not found"
       /\ v_result.calls = <<>>
  /\ (Validated /\ DeclaredType(v_name) # "" /\ v_result.exc = "" /\ ~v_result.accepted) =>
       /\ v_result.reason = "parameter " \o v_name \o " value did not validate"
       /\ \A n \in Names : v_result.reason # "parameter " \o n \o " not found"

\* An undeclared name with a value on which a float rule would raise.
C3_Witness ==
  /\ pc = "dispatch"
  /\ v_name = "year"
  /\ parameters[1].d_type = DType_FLOAT
  /\ v_value = NoneV
  /\ ~v_result.accepted
  /\ v_result.reason = "parameter year not found"

\* C4: an INT parameter's value is accepted if and only if it is an integer
\* or a string matching [+-]?[0-9]+; everything else is rejected.
C4_IntAcceptedIffGrammar ==
  (Validated /\ DeclaredType(v_name) = DType_INT) =>
    /\ v_result.exc = ""
    /\ v_result.accepted <=>
         \/ v_value.kind = "int"
         \/ v_value.kind = "str" /\ MatchesIntGrammar(v_value.chars)

\* The value float() gives, in units of 1/FloatScale, lies in [lo, hi].
ParsedWithin(v, lo, hi) ==
  /\ float(v).exc = ""
  /\ lo * FloatScale <= float(v).val.num
  /\ float(v).val.num <= hi * FloatScale

\* C5 as stated: LAT (LON) accepts exactly the floats and the strings that
\* parse as a float literal whose value lies in [-90, 90] ([-180, 180]),
\* bounds included; FLOAT accepts exactly the floats and those strings.
C5_FloatOrLiteralOnly ==
  LET t == DeclaredType(v_name)
      parses == \/ v_value.kind = "float"
                \/ v_value.kind = "str" /\ IsFloatLiteral(v_value.chars)
  IN Validated =>
       /\ t = DType_FLOAT => (v_result.accepted <=> parses)
       /\ t = DType_LAT => (v_result.accepted <=> (parses /\ ParsedWithin(v_value, -90, 90)))
       /\ t = DType_LON => (v_result.accepted <=> (parses /\ ParsedWithin(v_value, -180, 180)))

\* C5 amended: LAT (LON) accepts exactly the values float() converts (a
\* float, an integer, a string that parses as a float literal) whose
\* converted value lies in [-90, 90] ([-180, 180]), bounds included; FLOAT
\* accepts exactly the values float() converts.
C5_ConvertibleAndInRange ==
  LET t == DeclaredType(v_name)
      converts == \/ v_value.kind \in {"float", "int"}
                  \/ v_value.kind = "str" /\ IsFloatLiteral(v_value.chars)
  IN Validated =>
       /\ t = DType_FLOAT => (v_result.accepted <=> converts)
       /\ t = DType_LAT => (v_result.accepted <=> (converts /\ ParsedWithin(v_value, -90, 90)))
       /\ t = DType_LON => (v_result.accepted <=> (converts /\ ParsedWithin(v_value, -180, 180)))

\* The string "90" is accepted for a LAT parameter: the bound itself.
C5_Witness ==
  /\ pc = "dispatch"
  /\ v_name = "lat"
  /\ parameters[1].d_type = DType_LAT
  /\ v_value = StrV(<<"9", "0">>)
  /\ v_result.accepted

\* C6: a value validate_arg accepts for an INT, FLOAT, LAT or LON parameter
\* is converted by map_kwargs without a conversion error.
C6_CoercionAfterValidationNeverFails ==
  ( /\ pc = "coerced"
    /\ DeclaredType(v_name) \in {DType_INT, DType_FLOAT, DType_LAT, DType_LON}
    /\ v_result.exc = ""
    /\ v_result.accepted ) => m_result.exc = ""

\* --------------------------------------- properties: coercion, declaration

KeysOf(items) == {items[i][1] : i \in 1..Len(items)}

\* C9: when map_kwargs returns, its result has exactly the keys of its
\* input; a key with no declared Parameter, or one of type STRING, DATE,
\* TIME, WKT or an unrecognized type, keeps its raw value, an INT key holds
\* an integer and a FLOAT, LAT or LON key a floating-point number.
C9_CoercionPreservesKeys ==
  (pc = "coerced" /\ m_result.exc = "") =>
    /\ KeysOf(m_result.val) = KeysOf(kwargs)
    /\ Len(m_result.val) = Len(kwargs)
    /\ \A i \in 1..Len(kwargs) :
         LET t == DeclaredType(kwargs[i][1])
             out == CHOOSE j \in 1..Len(m_result.val) : m_result.val[j][1] = kwargs[i][1]
         IN /\ t = "int" => m_result.val[out][2].kind = "int"
            /\ t \in {"float", "lat", "lon"} => m_result.val[out][2].kind = "float"
            /\ t \notin {"int", "float", "lat", "lon"} =>
                 m_result.val[out][2] = kwargs[i][2]

\* Three keys coerced: an undeclared one passed through, an INT string
\* turned into an integer and a LAT string into a float.
C9_Witness ==
  /\ pc = "coerced"
  /\ m_result.exc = ""
  /\ parameters = <<Parameter("lat", DType_LAT), Parameter("year", DType_INT)>>
  /\ kwargs = << <<"extra", NoneV>>, <<"year", StrV(<<"-", "8">>)>>,
                 <<"lat", StrV(<<"9", ".", "1">>)>> >>
  /\ m_result.val[1] = <<"extra", NoneV>>
  /\ m_result.val[2] = <<"year", IntV(-8)>>
  /\ m_result.val[3][2].kind = "float"

\* C7 as stated: significant_kwargs pairs each declared Parameter's name,
\* in declaration order, with int for an INT parameter and str otherwise.
C7_IntLikeForInt ==
  pc = "defined" =>
    /\ Len(significant_kwargs) = Len(parameters)
    /\ \A i \in 1..Len(parameters) :
         significant_kwargs[i] =
           <<parameters[i].name,
             IF parameters[i].d_type = "int" THEN "builtins.int" ELSE "builtins.str">>

\* C7 amended: significant_kwargs pairs each declared Parameter's name, in
\* declaration order, with str, whatever the Semantic Type (INT included).
C7_StrForEveryType ==
  pc = "defined" =>
    /\ Len(significant_kwargs) = Len(parameters)
    /\ \A i \in 1..Len(parameters) :
         significant_kwargs[i] = <<parameters[i].name, "builtins.str">>

\* A two-parameter declaration with an INT parameter first.
C7_Witness ==
  /\ pc = "defined"
  /\ parameters = <<Parameter("year", DType_INT), Parameter("lat", DType_LAT)>>
  /\ significant_kwargs = << <<"year", "builtins.str">>, <<"lat", "builtins.str">> >>

\* ------------------------------------------------- properties: the pipeline

Ran(step) == \E i \in 1..Len(log) : log[i][1] = step
Done(step) == \E i \in 1..Len(log) : log[i] = <<step, "done">>

\* C1: an invocation whose kwargs hold a value validate_arg does not accept
\* never reaches the computation: generate_product is not invoked.
C1_RejectedNeverComputed ==
  (\E i \in 1..Len(kwargs) :
     ~validate_arg(parameters, kwargs[i][1], kwargs[i][2], FALSE).accepted)
    => ~Ran("generate_product")

\* C8: the steps of one invocation run in the fixed order, each at most
\* once and only after the earlier ones completed; a step that fails ends
\* the invocation with its exception and no later step runs.
C8_FixedOrder ==
  LET Order == <<"makedirs", "Datacube", "map_kwargs", "generate_product",
                 "log_query", "zip_outputs", "upload_results", "ping_results">>
      n == Len(log)
  IN /\ n <= Len(Order)
     /\ \A i \in 1..n : log[i][1] = Order[i]
     /\ \A i \in 1..(n - 1) : log[i][2] = "done"
     /\ (n > 0 /\ log[n][2] = "raise") => (pc = "raised" /\ exc # "")
     /\ (n = 0 \/ log[n][2] = "done") =>
          /\ exc = ""
          /\ pc = IF n = Len(Order) THEN "done" ELSE Order[n + 1]

\* The upload failed after the six earlier steps completed.
C8_Witness ==
  /\ pc = "raised"
  /\ Len(log) = 7
  /\ log[7] = <<"upload_results", "raise">>
  /\ Done("zip_outputs")
  /\ exc = "UploadError"

\* Extraction: each entry name yields its last entry's data.
Extract(entries) ==
  [n \in {entries[i].arcname : i \in 1..Len(entries)} |->
     entries[CHOOSE i \in 1..Len(entries) :
               /\ entries[i].arcname = n
               /\ \A j \in (i + 1)..Len(entries) : entries[j].arcname # n].data]

DistinctBaseNames ==
  \A i, j \in 1..Len(outputs) : i # j => basename(outputs[i]) # basename(outputs[j])

\* The archive is at <workingDir>/<requestId>_output.zip and extracts to
\* the request record under query.json, each output under its base name,
\* and nothing else.
RoundTrip ==
  LET x == Extract(zip_file.entries)
  IN /\ zip_file.path = <<"results", "req1", "req1_output.zip">>
     /\ DOMAIN x = {"query.json"} \cup {outputs[i][Len(outputs[i])] : i \in 1..Len(outputs)}
     /\ x["query.json"] = RequestRecord
     /\ \A i \in 1..Len(outputs) : x[outputs[i][Len(outputs[i])]] = fs[outputs[i]]

\* C10 as stated: round trip whenever no two output paths share a base name.
C10_RoundTripDistinctOutputs ==
  (Done("zip_outputs") /\ DistinctBaseNames) => RoundTrip

\* C10 amended: round trip whenever no two output paths share a base name
\* and no output path has the base name query.json.
C10_RoundTripNoCollision ==
  ( /\ Done("zip_outputs")
    /\ DistinctBaseNames
    /\ \A i \in 1..Len(outputs) : basename(outputs[i]) # "query.json" ) => RoundTrip

\* Two outputs from different directories packaged with the record.
C10_Witness ==
  /\ Done("zip_outputs")
  /\ outputs = <<join(path_prefix, "a.tif"), join(join(path_prefix, "tiles"), "b.tif")>>
  /\ Len(zip_file.entries) = 3
  /\ DOMAIN Extract(zip_file.entries) = {"query.json", "a.tif", "b.tif"}

====
